---- MODULE Spec2Model ----
(***************************************************************************)
(* Model of the log-line encoder of common/vb_log.c: the verbosity gate    *)
(* (vbLogVerbose), the fixed-width header builder VbLogHdrBuild and the    *)
(* two logging entry points VbLogPrint_helper and VbLogPrintExt_helper.    *)
(*                                                                         *)
(* A C character buffer is a sequence of one-character strings; the byte   *)
(* at C offset k is element k+1.  NUL is the terminator byte.  A C string  *)
(* read from a buffer (what "%s" prints) is the prefix before the first    *)
(* NUL.  A `const char *` argument is a record [null, str].                *)
(***************************************************************************)
EXTENDS Integers, Sequences, FiniteSets, TLC

(***************************************************************************)
(* Private constants of vb_log.c                                           *)
(***************************************************************************)
VB_LOG_MAX_MODE_LEN == 7
VB_LOG_MAX_FILE_LEN == 30
VB_LOG_MAX_LINENUM_LEN == 5
VB_LOG_MAX_FUNC_LEN == 40
VB_LOG_MAX_EXTRA_LEN == 24
VB_LOG_MAX_HDR_LEN ==
  VB_LOG_MAX_FILE_LEN + VB_LOG_MAX_LINENUM_LEN + VB_LOG_MAX_FUNC_LEN
    + VB_LOG_MAX_MODE_LEN + VB_LOG_MAX_EXTRA_LEN

\* vb_ea_communication.h: size of a driver id buffer, terminator included.
VB_EA_DRIVER_ID_MAX_SIZE == 20
VB_LOG_MAX_DRIVER_HDR_LEN == VB_EA_DRIVER_ID_MAX_SIZE + 2
VB_LOG_MAX_EXT_HDR_LEN == VB_LOG_MAX_HDR_LEN + VB_LOG_MAX_DRIVER_HDR_LEN
\* Minimum field width of the "%-20s" conversion of VB_LOG_DRIVER_ID_FMT.
VB_LOG_DRIVER_ID_FMT_WIDTH == 20
VB_LOG_MAX_LINE_LEN == 200
VB_LOG_ENTRY_LEN == VB_LOG_MAX_HDR_LEN + VB_LOG_MAX_LINE_LEN
VB_LOG_EXT_ENTRY_LEN == VB_LOG_MAX_EXT_HDR_LEN + VB_LOG_MAX_LINE_LEN

\* vb_log.h: t_vbLogLevel, most severe first; VB_LOG_LAST is the sentinel.
VB_LOG_LAST == 3

\* vb_util: display name of a level.
VbVerboseLevelToStr(mode) ==
  CASE mode = 0 -> <<"E","R","R","O","R">>
    [] mode = 1 -> <<"W","A","R","N","I","N","G">>
    [] OTHER    -> <<"I","N","F","O">>

(***************************************************************************)
(* Bounds of the model                                                     *)
(***************************************************************************)
\* Number of logging calls in one run.
MaxCalls == 2

(***************************************************************************)
(* C library primitives                                                    *)
(***************************************************************************)
NUL == "NUL"
\* Content of an uninitialised automatic array.
JUNK == "?"

Min(a, b) == IF a < b THEN a ELSE b

Take(s, n) == SubSeq(s, 1, Min(n, Len(s)))

RECURSIVE Rep(_, _)
\* n copies of c.
Rep(c, n) ==
  IF n <= 0 THEN <<>>
  ELSE IF n = 1 THEN <<c>>
  ELSE LET h == Rep(c, n \div 2) IN
       IF n % 2 = 0 THEN h \o h ELSE h \o h \o <<c>>

NULL == [null |-> TRUE, str |-> <<>>]
Ptr(s) == [null |-> FALSE, str |-> s]

\* calloc(1, n): n zero bytes.
Calloc(n) == Rep(NUL, n)

\* An automatic char array of n bytes.
StackArray(n) == Rep(JUNK, n)

\* strlen(buf): the number of bytes before the first NUL of buf.
Strlen(buf) ==
  LET nuls == {i \in 1..Len(buf) : buf[i] = NUL} IN
  IF nuls = {} THEN Len(buf)
  ELSE (CHOOSE i \in nuls : \A j \in nuls : i <= j) - 1

\* The C string at the start of buf: the bytes before its first NUL.
CStr(buf) == SubSeq(buf, 1, Strlen(buf))

\* Store the bytes of s at offset off.
Poke(buf, off, s) ==
  SubSeq(buf, 1, off) \o s \o SubSeq(buf, off + Len(s) + 1, Len(buf))

\* snprintf(buf + off, size, ...) where the conversions render to s:
\* at most size-1 characters are stored, then the terminator.
SnprintfMutNoTrunc(buf, off, size, s) == Poke(buf, off, Take(s, size) \o <<NUL>>)
Snprintf(buf, off, size, s) == Poke(buf, off, Take(s, size - 1) \o <<NUL>>)

\* strncpy(buf, src, n): exactly n bytes are stored, the first
\* min(n, strlen(src)) from src, the rest zero; no terminator is added when
\* src has n or more characters.
Strncpy(buf, src, n) ==
  Poke(buf, 0, Take(src, n) \o Rep(NUL, n - Min(n, Len(src))))

\* buf[off] = '\0'
SetNul(buf, off) == Poke(buf, off, <<NUL>>)

Digit(d) == <<"0","1","2","3","4","5","6","7","8","9">>[d + 1]

RECURSIVE Dec(_)
\* "%d" / "%u" of a non-negative number.
Dec(n) == IF n < 10 THEN <<Digit(n)>> ELSE Dec(n \div 10) \o <<Digit(n % 10)>>

\* "%0wd": zero-padded to at least w digits.
ZeroPad(n, w) == LET d == Dec(n) IN
  IF Len(d) >= w THEN d ELSE Rep("0", w - Len(d)) \o d

\* "%ws": right-justified in at least w columns.
PadLeft(s, w) == IF Len(s) >= w THEN s ELSE Rep(" ", w - Len(s)) \o s

\* "%-ws": left-justified in at least w columns.
PadRight(s, w) == IF Len(s) >= w THEN s ELSE s \o Rep(" ", w - Len(s))

(***************************************************************************)
(* State                                                                   *)
(***************************************************************************)
VARIABLES
  vbLogVerbose,  \* the configured threshold
  calls,         \* logging calls made so far
  sinkCalls,     \* syslog() calls made so far
  errOut,        \* lines written to stderr
  allocs,        \* successful calloc() calls so far
  live,          \* buffers allocated and not released
  last           \* the last operation: its arguments and what it did

vars == <<vbLogVerbose, calls, sinkCalls, errOut, allocs, live, last>>

NoClock == [tmNull |-> TRUE, hour |-> 0, min |-> 0, sec |-> 0, usec |-> 0]

NoCall ==
  [op |-> "none", level |-> 0, thr |-> 0, file |-> NULL, line |-> 0,
   func |-> NULL, msg |-> <<>>, driverId |-> NULL, clk |-> NoClock,
   outcome |-> "none", entry |-> <<>>]

Init ==
  /\ vbLogVerbose = 0
  /\ calls = 0
  /\ sinkCalls = 0
  /\ errOut = <<>>
  /\ allocs = 0
  /\ live = 0
  /\ last = NoCall

(***************************************************************************)
(* Inputs                                                                  *)
(***************************************************************************)
\* A t_vbLogLevel value a caller can pass: the levels, the sentinel and one
\* value beyond it.
Levels == 0..(VB_LOG_LAST + 1)

Alphabet ==
  <<"a","b","c","d","e","f","g","h","i","j","k","l","m",
    "n","o","p","q","r","s","t","u","v","w","x","y","z">>

\* A name of n characters whose i-th character depends on i.
Name(n) == [i \in 1..n |-> Alphabet[((i - 1) % 26) + 1]]

NetC == <<"n","e","t",".","c">>
DoSend == <<"d","o","S","e","n","d">>

\* A call site: __FILE__, __LINE__ (an INT16U), __FUNCTION__.
Site(f, l, fn) == [file |-> f, line |-> l, func |-> fn]

Site1 == Site(Ptr(NetC), 42, Ptr(DoSend))

Sites ==
  { Site1,
    Site(Ptr(Name(VB_LOG_MAX_FILE_LEN)), 0, Ptr(Name(VB_LOG_MAX_FUNC_LEN))),
    Site(Ptr(Name(VB_LOG_MAX_FILE_LEN + 1)), 65535,
         Ptr(Name(VB_LOG_MAX_FUNC_LEN + 1))),
    Site(Ptr(Name(64)), 7, Ptr(Name(64))),
    Site(NULL, 1, Ptr(DoSend)),
    Site(Ptr(NetC), 1, NULL) }

\* A format with its arguments: text followed by one "%d" per argument.
Fmt(t, a) == [text |-> t, args |-> a]

FailedFmt == Fmt(<<"f","a","i","l","e","d",":"," ">>, <<7>>)

Fmts ==
  { FailedFmt } \cup
  { Fmt(Name(n), <<>>) :
      n \in {VB_LOG_MAX_LINE_LEN - 1, VB_LOG_MAX_LINE_LEN, VB_LOG_MAX_LINE_LEN + 50} }

\* Driver ids: short, one below the buffer size, the buffer size, 64 chars.
DriverIds ==
  { Name(n) : n \in {5, VB_EA_DRIVER_ID_MAX_SIZE - 1, VB_EA_DRIVER_ID_MAX_SIZE, 64} }

\* What time()/localtime()/gettimeofday() return to a call.  Noon is an
\* ordinary reading; LeapSecond carries a sub-second value of a full second,
\* the case the clamp in VbLogHdrBuild is written for; NoClock is localtime()
\* returning NULL.
Clk(h, m, s, us) == [tmNull |-> FALSE, hour |-> h, min |-> m, sec |-> s, usec |-> us]
Noon == Clk(12, 5, 9, 42000)
LeapSecond == Clk(23, 59, 60, 1000000)
Clocks == { Noon, LeapSecond, NoClock }

\* Arguments of the plain logger, with the clock reading the call sees:
\* every call site with the short message, every message and every clock
\* reading from the first call site.
PlainArgs ==
  { [site |-> s, fmt |-> FailedFmt, clk |-> Noon] : s \in Sites } \cup
  { [site |-> Site1, fmt |-> f, clk |-> Noon] : f \in Fmts } \cup
  { [site |-> Site1, fmt |-> FailedFmt, clk |-> c] : c \in Clocks }

\* Arguments of the extended logger: every driver id with the short message,
\* every call site with the long message and the long id.
ExtArgs ==
  { [site |-> Site1, fmt |-> FailedFmt, driverId |-> d, clk |-> Noon] :
      d \in DriverIds } \cup
  { [site |-> s, fmt |-> Fmt(Name(VB_LOG_MAX_LINE_LEN + 50), <<>>),
     driverId |-> Name(64), clk |-> LeapSecond] : s \in Sites } \cup
  { [site |-> Site1, fmt |-> FailedFmt, driverId |-> Name(5), clk |-> NoClock] }

(***************************************************************************)
(* Private functions                                                       *)
(***************************************************************************)
\* VbLogErrorPrint: the formatted text, then "\n", to stderr.
VbLogErrorPrintMutSilent(out, text) == out
VbLogErrorPrint(out, text) == Append(out, text \o <<"\n">>)

NoMemory(bytes) ==
  <<"No memory to allocate log_line (">> \o Dec(bytes) \o <<" bytes)">>

\* INT32U msec = tv.tv_usec / 1000; if (msec >= 1000) msec = 999;
MsecMutNoClamp(usec) == usec \div 1000
Msec(usec) == LET msec == usec \div 1000 IN IF msec >= 1000 THEN 999 ELSE msec

\* VB_LOG_FMT "[%7s][%30s][%5s][%40s][%02d:%02d:%02d %03dms]"
VB_LOG_FMT(mode, file, linenum, func, hour, min, sec, msec) ==
  <<"[">> \o PadLeft(mode, 7) \o <<"]", "[">>
    \o PadLeft(file, 30) \o <<"]", "[">>
    \o PadLeft(linenum, 5) \o <<"]", "[">>
    \o PadLeft(func, 40) \o <<"]", "[">>
    \o ZeroPad(hour, 2) \o <<":">> \o ZeroPad(min, 2) \o <<":">>
    \o ZeroPad(sec, 2) \o <<" ">> \o ZeroPad(msec, 3) \o <<"m", "s", "]">>

\* CHAR name_str[len+1]; strncpy(name_str, src, len+1); name_str[len] = '\0';
\* the copy of the file name and of the function name.
CopyNameMutShort(src, len) ==
  SetNul(Strncpy(StackArray(len + 1), src, len), len - 1)
CopyName(src, len) ==
  SetNul(Strncpy(StackArray(len + 1), src, len + 1), len)

\* The guard of VbLogHdrBuild: only under it is the clock read.
HdrArgsOk(mode, file, function) ==
  (mode < VB_LOG_LAST) /\ ~file.null /\ ~function.null

\* VbLogHdrBuild: the buffer dst after the call.
VbLogHdrBuild(dst, mode, file, line, function, clk) ==
  IF HdrArgsOk(mode, file, function)
  THEN
    IF ~clk.tmNull
    THEN
      LET mode_str ==
            SetNul(Snprintf(StackArray(VB_LOG_MAX_MODE_LEN + 1), 0,
                            VB_LOG_MAX_MODE_LEN + 1,
                            PadLeft(VbVerboseLevelToStr(mode), 7)),
                   VB_LOG_MAX_MODE_LEN)
          file_name_str == CopyName(file.str, VB_LOG_MAX_FILE_LEN)
          linenum_name_str ==
            SetNul(Snprintf(StackArray(VB_LOG_MAX_LINENUM_LEN + 1), 0,
                            VB_LOG_MAX_LINENUM_LEN + 1, ZeroPad(line, 5)),
                   VB_LOG_MAX_LINENUM_LEN)
          func_name_str == CopyName(function.str, VB_LOG_MAX_FUNC_LEN)
          msec == Msec(clk.usec)
      IN Snprintf(dst, 0, VB_LOG_MAX_HDR_LEN + 1,
                  VB_LOG_FMT(CStr(mode_str), CStr(file_name_str),
                             CStr(linenum_name_str), CStr(func_name_str),
                             clk.hour, clk.min, clk.sec, msec))
    ELSE dst
  ELSE dst

\* What the conversions of a format render to.
RECURSIVE Render(_)
Render(fmt) ==
  IF fmt.args = <<>> THEN fmt.text
  ELSE fmt.text \o Dec(Head(fmt.args)) \o Render(Fmt(<<>>, Tail(fmt.args)))

\* vsnprintf(buf + off, size, fmt, args)
Vsnprintf(buf, off, size, fmt) == Snprintf(buf, off, size, Render(fmt))

\* VB_LOG_DRIVER_ID_FMT "[%-20s]"
VB_LOG_DRIVER_ID_FMT(driver_id_str) ==
  <<"[">> \o PadRight(driver_id_str, VB_LOG_DRIVER_ID_FMT_WIDTH) \o <<"]">>

\* The verbosity test of both loggers.
AllowMutStrict(verboseLevel, threshold) == verboseLevel < threshold
AllowMutAll(verboseLevel, threshold) == TRUE
Allow(verboseLevel, threshold) == verboseLevel <= threshold

\* The clock reading a call consumes: none unless the header is built.
ClockRead(level, a) ==
  IF HdrArgsOk(level, a.site.file, a.site.func) THEN a.clk ELSE NoClock

\* log_line of VbLogPrint_helper when it is handed to syslog.
PlainLine(a, level) ==
  LET log_line == Calloc(VB_LOG_ENTRY_LEN + 1)
      b1 == VbLogHdrBuild(log_line, level, a.site.file, a.site.line,
                          a.site.func, a.clk)
  IN Vsnprintf(b1, VB_LOG_MAX_HDR_LEN, VB_LOG_MAX_LINE_LEN, a.fmt)

\* driver_id_str of VbLogPrintExt_helper.
DriverIdStr(driverId) ==
  SetNul(Strncpy(StackArray(VB_EA_DRIVER_ID_MAX_SIZE), driverId,
                 VB_EA_DRIVER_ID_MAX_SIZE),
         VB_EA_DRIVER_ID_MAX_SIZE - 1)

\* log_line of VbLogPrintExt_helper when it is handed to syslog.
ExtLine(a, level) ==
  LET log_line == Calloc(VB_LOG_EXT_ENTRY_LEN + 1)
      b1 == VbLogHdrBuild(log_line, level, a.site.file, a.site.line,
                          a.site.func, a.clk)
      b2 == Snprintf(b1, VB_LOG_MAX_HDR_LEN, VB_LOG_MAX_DRIVER_HDR_LEN,
                     VB_LOG_DRIVER_ID_FMT(CStr(DriverIdStr(a.driverId))))
  IN Vsnprintf(b2, VB_LOG_MAX_HDR_LEN + VB_LOG_MAX_DRIVER_HDR_LEN - 1,
               VB_LOG_MAX_LINE_LEN, a.fmt)

(***************************************************************************)
(* Public functions                                                        *)
(***************************************************************************)
\* VbLogInit: stores the level it is given, whatever it is.
VbLogInit ==
  \E verboseLevel \in Levels :
    /\ vbLogVerbose' = verboseLevel
    /\ last' = [NoCall EXCEPT !.op = "init", !.thr = verboseLevel]
    /\ UNCHANGED <<calls, sinkCalls, errOut, allocs, live>>

CallRecord(op, a, level, driverId) ==
  [NoCall EXCEPT !.op = op, !.level = level, !.thr = vbLogVerbose,
                 !.file = a.site.file, !.line = a.site.line,
                 !.func = a.site.func, !.msg = Render(a.fmt),
                 !.driverId = driverId]

Filtered(rec) ==
  /\ last' = [rec EXCEPT !.outcome = "filtered"]
  /\ UNCHANGED <<sinkCalls, errOut, allocs, live>>

AllocFailed(rec, bytes) ==
  /\ errOut' = VbLogErrorPrint(errOut, NoMemory(bytes))
  /\ last' = [rec EXCEPT !.outcome = "nomem"]
  /\ UNCHANGED <<sinkCalls, allocs, live>>

\* syslog(LOG_INFO, "%s", log_line); log_line is not freed.
Emitted(rec, clk, lineBuf) ==
  /\ allocs' = allocs + 1
  /\ live' = live + 1
  /\ sinkCalls' = sinkCalls + 1
  /\ last' = [rec EXCEPT !.outcome = "emitted", !.clk = clk,
                         !.entry = CStr(lineBuf)]
  /\ UNCHANGED errOut

VbLogPrint_helper ==
  /\ calls < MaxCalls
  /\ calls' = calls + 1
  /\ UNCHANGED vbLogVerbose
  /\ \E a \in PlainArgs, verboseLevel \in Levels :
       LET rec == CallRecord("plain", a, verboseLevel, NULL) IN
       IF Allow(verboseLevel, vbLogVerbose)
       THEN \/ AllocFailed(rec, VB_LOG_ENTRY_LEN + 1)
            \/ Emitted(rec, ClockRead(verboseLevel, a), PlainLine(a, verboseLevel))
       ELSE Filtered(rec)

VbLogPrintExt_helper ==
  /\ calls < MaxCalls
  /\ calls' = calls + 1
  /\ UNCHANGED vbLogVerbose
  /\ \E a \in ExtArgs, verboseLevel \in Levels :
       LET rec == CallRecord("ext", a, verboseLevel, Ptr(a.driverId)) IN
       IF Allow(verboseLevel, vbLogVerbose)
       THEN \/ AllocFailed(rec, VB_LOG_EXT_ENTRY_LEN + 1)
            \/ Emitted(rec, ClockRead(verboseLevel, a), ExtLine(a, verboseLevel))
       ELSE Filtered(rec)

Next == VbLogInit \/ VbLogPrint_helper \/ VbLogPrintExt_helper

Spec == Init /\ [][Next]_vars

(***************************************************************************)
(* Layout of an emitted line                                               *)
(***************************************************************************)
IsLogCall == last.op \in {"plain", "ext"}
IsEmitted == IsLogCall /\ last.outcome = "emitted"

\* This step is one logging call.
LogStep == calls' = calls + 1

\* The last call ran VbLogHdrBuild with arguments and a clock reading under
\* which it writes the header.
HdrWritten ==
  IsEmitted /\ HdrArgsOk(last.level, last.file, last.func) /\ ~last.clk.tmNull

\* The w characters of line after its first off characters.
Field(line, off, w) == SubSeq(line, off + 1, off + w)

\* Offsets of the '[' of each header field in VB_LOG_FMT.
FileOff == VB_LOG_MAX_MODE_LEN + 2
LineOff == FileOff + VB_LOG_MAX_FILE_LEN + 2
FuncOff == LineOff + VB_LOG_MAX_LINENUM_LEN + 2
TimeOff == FuncOff + VB_LOG_MAX_FUNC_LEN + 2

IsDigit(c) == \E d \in 0..9 : Digit(d) = c
DigitVal(c) == CHOOSE d \in 0..9 : Digit(d) = c

RECURSIVE DecVal(_)
\* The number a sequence of decimal digits writes.
DecVal(ds) ==
  IF ds = <<>> THEN 0
  ELSE 10 * DecVal(SubSeq(ds, 1, Len(ds) - 1)) + DigitVal(ds[Len(ds)])

AllDigits(ds) == \A i \in 1..Len(ds) : IsDigit(ds[i])

\* The message as the bounded formatter keeps it.
KeptMsg == Take(last.msg, VB_LOG_MAX_LINE_LEN - 1)

\* The longest line each logger can hand to the sink.
MaxPlainLine == VB_LOG_MAX_HDR_LEN + VB_LOG_MAX_LINE_LEN - 1
MaxExtLine ==
  VB_LOG_MAX_HDR_LEN + (VB_LOG_MAX_DRIVER_HDR_LEN - 1) + VB_LOG_MAX_LINE_LEN - 1

(***************************************************************************)
(* Claims                                                                  *)
(***************************************************************************)
\* C1: a logging call (plain or extended) at a level strictly less severe
\* than the threshold (level > threshold) makes no sink call, allocates no
\* buffer, writes nothing to stderr and leaves the threshold unchanged.
C1_FilteredCallHasNoEffect ==
  [][ (LogStep /\ last'.level > vbLogVerbose) =>
        /\ sinkCalls' = sinkCalls
        /\ allocs' = allocs
        /\ live' = live
        /\ errOut' = errOut
        /\ vbLogVerbose' = vbLogVerbose ]_vars

C1_Witness ==
  /\ last.op = "ext"
  /\ last.level > vbLogVerbose
  /\ last.level < VB_LOG_LAST
  /\ last.outcome = "filtered"
  /\ sinkCalls = 0

\* C2: a logging call at a level at least as severe as the threshold
\* (level <= threshold) whose allocation does not fail makes exactly one
\* sink call.
C2_ExactlyOneSinkCall ==
  [][ (LogStep /\ last'.level <= vbLogVerbose /\ last'.outcome # "nomem") =>
        sinkCalls' = sinkCalls + 1 ]_vars

C2_Witness ==
  /\ IsEmitted
  /\ last.level = vbLogVerbose
  /\ calls = 2
  /\ sinkCalls = 2

\* C3 as stated, for the lines whose header is written: every line handed
\* to the sink has exactly the total length of its entry variant (header +
\* message width, or header + subsystem field + message width).
C3_ExactLength ==
  HdrWritten =>
    Len(last.entry) =
      (IF last.op = "plain" THEN VB_LOG_ENTRY_LEN ELSE VB_LOG_EXT_ENTRY_LEN)

\* C3 amended: a line handed to the sink is never longer than
\* header + message width - 1 (plain) or header + (subsystem field - 1) +
\* message width - 1 (extended); the message is cut to message width - 1
\* characters and is not padded, so a line with a built header is exactly
\* that much longer than the fixed part.
C3_NeverLonger ==
  IsEmitted =>
    /\ Len(last.entry) <= (IF last.op = "plain" THEN MaxPlainLine ELSE MaxExtLine)
    /\ HdrWritten =>
         Len(last.entry) =
           (IF last.op = "plain" THEN VB_LOG_MAX_HDR_LEN
            ELSE VB_LOG_MAX_HDR_LEN + VB_LOG_MAX_DRIVER_HDR_LEN - 1)
           + Min(Len(last.msg), VB_LOG_MAX_LINE_LEN - 1)

C3_Witness ==
  /\ IsEmitted
  /\ last.op = "plain"
  /\ Len(last.msg) > VB_LOG_MAX_LINE_LEN
  /\ Len(last.entry) = MaxPlainLine

\* C4 as stated: every buffer a logging call allocates is released before
\* the call returns, so between calls no line buffer is allocated and not
\* released.
C4_NoLiveBuffer == live = 0

\* C5: a logging call whose allocation fails makes no sink call, writes one
\* diagnostic line to stderr and changes neither the threshold nor the heap:
\* the state every later call starts from is the one before the failed call.
C5_AllocFailureIsLocal ==
  [][ (LogStep /\ last'.outcome = "nomem") =>
        /\ sinkCalls' = sinkCalls
        /\ Len(errOut') = Len(errOut) + 1
        /\ SubSeq(errOut', 1, Len(errOut)) = errOut
        /\ errOut'[Len(errOut')] =
             NoMemory(IF last'.op = "plain" THEN VB_LOG_ENTRY_LEN + 1
                      ELSE VB_LOG_EXT_ENTRY_LEN + 1) \o <<"\n">>
        /\ vbLogVerbose' = vbLogVerbose
        /\ allocs' = allocs
        /\ live' = live ]_vars

\* A call is served after an earlier call failed to allocate.
C5_Witness ==
  /\ Len(errOut) = 1
  /\ IsEmitted
  /\ HdrWritten
  /\ sinkCalls = 1
  /\ calls = 2

\* C6 as stated: a passing call with a null file or function name still
\* hands the sink a line with the full fixed-width header and the message.
C6_NullFieldKeepsLine ==
  (IsEmitted /\ last.level < VB_LOG_LAST /\ (last.file.null \/ last.func.null)) =>
    /\ Len(last.entry) >= VB_LOG_MAX_HDR_LEN
    /\ SubSeq(last.entry, Len(last.entry) - Len(KeptMsg) + 1, Len(last.entry))
         = KeptMsg

\* C7 as stated: a call at the sentinel VB_LOG_LAST or beyond makes no sink
\* call, whatever threshold VbLogInit was given.
C7_SentinelNeverEmitted ==
  (IsLogCall /\ last.level >= VB_LOG_LAST) => last.outcome # "emitted"

\* C8 as stated: a file name, function name or driver id longer than its
\* field width w (30, 40, VB_EA_DRIVER_ID_MAX_SIZE) is emitted as its first
\* w - 1 characters.
C8_TruncatedToWidthMinusOne ==
  HdrWritten =>
    /\ Len(last.file.str) > VB_LOG_MAX_FILE_LEN =>
         Field(last.entry, FileOff + 1, VB_LOG_MAX_FILE_LEN)
           = PadLeft(Take(last.file.str, VB_LOG_MAX_FILE_LEN - 1), VB_LOG_MAX_FILE_LEN)
    /\ Len(last.func.str) > VB_LOG_MAX_FUNC_LEN =>
         Field(last.entry, FuncOff + 1, VB_LOG_MAX_FUNC_LEN)
           = PadLeft(Take(last.func.str, VB_LOG_MAX_FUNC_LEN - 1), VB_LOG_MAX_FUNC_LEN)
    /\ (last.op = "ext" /\ Len(last.driverId.str) > VB_EA_DRIVER_ID_MAX_SIZE) =>
         Field(last.entry, VB_LOG_MAX_HDR_LEN + 1, VB_EA_DRIVER_ID_MAX_SIZE)
           = PadRight(Take(last.driverId.str, VB_EA_DRIVER_ID_MAX_SIZE - 1),
                      VB_EA_DRIVER_ID_MAX_SIZE)

\* C8 amended: in a line that carries the header, a file name longer than 30
\* characters is emitted as its first 30 characters and a function name
\* longer than 40 as its first 40 (the whole field width; the terminator is
\* the extra byte of the local buffer), each between its own brackets; a
\* driver id longer than VB_EA_DRIVER_ID_MAX_SIZE is emitted as its first
\* VB_EA_DRIVER_ID_MAX_SIZE - 1 characters and one blank.
C8_TruncatedToWidth ==
  HdrWritten =>
    /\ Len(last.file.str) > VB_LOG_MAX_FILE_LEN =>
         /\ Field(last.entry, FileOff + 1, VB_LOG_MAX_FILE_LEN)
              = Take(last.file.str, VB_LOG_MAX_FILE_LEN)
         /\ last.entry[FileOff + 1] = "["
         /\ last.entry[LineOff] = "]"
    /\ Len(last.func.str) > VB_LOG_MAX_FUNC_LEN =>
         /\ Field(last.entry, FuncOff + 1, VB_LOG_MAX_FUNC_LEN)
              = Take(last.func.str, VB_LOG_MAX_FUNC_LEN)
         /\ last.entry[FuncOff + 1] = "["
         /\ last.entry[TimeOff] = "]"
    /\ (last.op = "ext" /\ Len(last.driverId.str) > VB_EA_DRIVER_ID_MAX_SIZE) =>
         /\ last.entry[VB_LOG_MAX_HDR_LEN + 1] = "["
         /\ Field(last.entry, VB_LOG_MAX_HDR_LEN + 1, VB_EA_DRIVER_ID_MAX_SIZE)
              = Take(last.driverId.str, VB_EA_DRIVER_ID_MAX_SIZE - 1) \o <<" ">>

C8_Witness ==
  /\ HdrWritten
  /\ last.op = "ext"
  /\ Len(last.file.str) > VB_LOG_MAX_FILE_LEN + 1
  /\ Len(last.func.str) > VB_LOG_MAX_FUNC_LEN + 1
  /\ Len(last.driverId.str) > VB_EA_DRIVER_ID_MAX_SIZE

\* C9: for an in-range level, non-null file and function names and a clock
\* reading, the header is exactly VB_LOG_MAX_HDR_LEN characters, from '[' to
\* the ']' after "ms", with what follows it starting right behind; the line
\* number field is the 5 zero-padded digits of the line and the millisecond
\* field is 3 digits, 999 for a sub-second value of 1000 ms or more.
C9_HeaderIsFixedWidth ==
  HdrWritten =>
    LET e == last.entry
        ms == last.clk.usec \div 1000
    IN
    /\ Len(e) >= VB_LOG_MAX_HDR_LEN
    /\ e[1] = "["
    /\ Field(e, VB_LOG_MAX_HDR_LEN - 3, 3) = <<"m", "s", "]">>
    /\ last.op = "plain" => SubSeq(e, VB_LOG_MAX_HDR_LEN + 1, Len(e)) = KeptMsg
    /\ last.op = "ext" => e[VB_LOG_MAX_HDR_LEN + 1] = "["
    /\ e[LineOff + 1] = "["
    /\ AllDigits(Field(e, LineOff + 1, VB_LOG_MAX_LINENUM_LEN))
    /\ DecVal(Field(e, LineOff + 1, VB_LOG_MAX_LINENUM_LEN)) = last.line
    /\ e[FuncOff] = "]"
    /\ e[VB_LOG_MAX_HDR_LEN - 6] = " "
    /\ AllDigits(Field(e, VB_LOG_MAX_HDR_LEN - 6, 3))
    /\ DecVal(Field(e, VB_LOG_MAX_HDR_LEN - 6, 3)) = (IF ms >= 1000 THEN 999 ELSE ms)

C9_Witness ==
  /\ HdrWritten
  /\ last.clk.usec \div 1000 >= 1000
  /\ last.line = 65535
  /\ Len(last.file.str) > VB_LOG_MAX_FILE_LEN
  /\ Field(last.entry, VB_LOG_MAX_HDR_LEN - 6, 3) = <<"9", "9", "9">>

\* C10 as stated: in a line of the extended logger the header is followed by
\* '[', the id left-justified in VB_EA_DRIVER_ID_MAX_SIZE columns (at most
\* VB_EA_DRIVER_ID_MAX_SIZE - 1 characters of it), the closing ']', and then
\* the message.
C10_BracketedDriverId ==
  (HdrWritten /\ last.op = "ext") =>
    LET e == last.entry
        idEnd == VB_LOG_MAX_HDR_LEN + 1 + VB_EA_DRIVER_ID_MAX_SIZE
    IN
    /\ Len(e) > idEnd
    /\ e[VB_LOG_MAX_HDR_LEN + 1] = "["
    /\ Field(e, VB_LOG_MAX_HDR_LEN + 1, VB_EA_DRIVER_ID_MAX_SIZE)
         = PadRight(Take(last.driverId.str, VB_EA_DRIVER_ID_MAX_SIZE - 1),
                    VB_EA_DRIVER_ID_MAX_SIZE)
    /\ e[idEnd + 1] = "]"
    /\ SubSeq(e, idEnd + 2, Len(e)) = KeptMsg
====
